---- MODULE Spec2Model ----
(***************************************************************************)
(* A model of hydra, a DPLL SAT solver (kit-matthewson/hydra).             *)
(*                                                                         *)
(*   literals.rs  Var / Lit: packed literal codes and DIMACS numbers       *)
(*   formula.rs   Clause / Formula and the reference DPLL Formula::solve   *)
(*   solver.rs    Context (watched literals) and solve / attempt_solve     *)
(*                                                                         *)
(* A literal is its packed code (index << 1) | polarity, a clause is the   *)
(* sequence of its literals, a formula is the sequence of its clauses      *)
(* together with the set of its variables.                                 *)
(***************************************************************************)
EXTENDS Integers, Sequences, FiniteSets, TLC

VARIABLES
    formula,    \* the Formula under construction, then the one being solved
    phase,      \* "build" | "solving" | "done"
    stack,      \* the activation records of attempt_solve, innermost last
    result,     \* what solver::solve returned
    ref,        \* what the reference Formula::solve returned
    lastAssign, \* the last call of Context::assign: its arguments and effect
    call        \* a call of a function of literals.rs or formula.rs: arguments and result

vars == <<formula, phase, stack, result, ref, lastAssign, call>>

(***************************************************************************)
(* Bounds of the model.                                                    *)
(***************************************************************************)
\* Variables have index 0 .. NumVars - 1.
NumVars == 3
\* A clause has at most MaxLen literals.
MaxLen == 3
\* A formula has at most MaxClauses clauses.
MaxClauses == 4
\* A formula of more than MaxWide clauses is narrow: its clauses have at most
\* NarrowLen literals, over the variables 0 .. NarrowVars - 1.
MaxWide == 2
NarrowLen == 2
NarrowVars == 2
\* A formula gets more than MaxShort clauses only when each of its clauses has
\* exactly NarrowLen literals over NarrowLen variables; its last clause is
\* then any clause of at most MaxLen literals.
MaxShort == 3
\* DIMACS numbers and indices handed to the constructors: -SmallNum .. SmallNum
\* and the same distance around MAX_VAR.
SmallNum == 12

(***************************************************************************)
(* Option and Result values.                                               *)
(***************************************************************************)
None == [some |-> FALSE]
Some(x) == [some |-> TRUE, val |-> x]
IsSome(o) == o.some

\* A panic (unwrap of None, unreachable!) in place of a returned value.
Panic == [some |-> FALSE, panic |-> TRUE]

Ok(x) == [ok |-> TRUE, val |-> x]
Err(e) == [ok |-> FALSE, err |-> e]

(***************************************************************************)
(* literals.rs                                                             *)
(***************************************************************************)
\* LitIndex = u32.  The casts `index as LitIndex` and the shift of from_index
\* are reached with index <= MAX_VAR only, where the cast keeps the value and
\* the shifted code is at most MaxCode, below u32::MAX.
MaxCode == 2147483647

\* LitIndex::max_value() >> 2, the index of Var::max_var().
MAX_VAR == 1073741823

Abs(n) == IF n < 0 THEN -n ELSE n

\* Var::from_index
VarFromIndex(index) ==
    IF index > MAX_VAR THEN Err("IndexTooLarge") ELSE Ok(index)

\* Var::from_dimacs (number: usize)
VarFromDimacs(number) ==
    IF number = 0 THEN Err("InvalidDimacs") ELSE VarFromIndex(number - 1)

\* Lit::from_index with the range test off by one: the index MAX_VAR is refused
LitFromIndexExclusive(index, polarity) ==
    IF index >= MAX_VAR
    THEN Err("IndexTooLarge")
    ELSE Ok(index * 2 + (IF polarity THEN 1 ELSE 0))

\* Lit::from_index with the shift forgotten: the code is index | polarity
LitFromIndexNoShift(index, polarity) ==
    IF index > MAX_VAR
    THEN Err("IndexTooLarge")
    ELSE Ok(IF polarity /\ index % 2 = 0 THEN index + 1 ELSE index)

\* Lit::from_index: the code is (index << 1) | polarity
LitFromIndex(index, polarity) ==
    IF index > MAX_VAR
    THEN Err("IndexTooLarge")
    ELSE Ok(index * 2 + (IF polarity THEN 1 ELSE 0))

\* Lit::from_dimacs (number: isize)
LitFromDimacs(number) ==
    IF number = 0
    THEN Err("InvalidDimacs")
    ELSE LitFromIndex(Abs(number) - 1, number > 0)

\* Lit::index: code >> 1
LitIndex(lit) == lit \div 2

\* Lit::var
LitVar(lit) == LitIndex(lit)

\* Lit::polarity: (code & 1) == 1
LitPolarity(lit) == (lit % 2) = 1

\* Lit::is_positive, Lit::is_negative
IsPositive(lit) == LitPolarity(lit)
IsNegative(lit) == ~LitPolarity(lit)

\* Lit::from_var: from_index(..).expect(..)
LitFromVar(var, polarity) == LitFromIndex(var, polarity).val

\* Var::positive, Var::negative
VarPositive(var) == LitFromVar(var, TRUE)
VarNegative(var) == LitFromVar(var, FALSE)

\* impl ops::Not for Lit with the polarity kept as it is
LitNotSamePolarity(lit) == LitFromIndex(LitIndex(lit), LitPolarity(lit))

\* impl ops::Not for Lit, before its unwrap(): an Err here is a panic
LitNot(lit) == LitFromIndex(LitIndex(lit), ~LitPolarity(lit))

\* Lit::complement: !*self
Complement(lit) == LitNot(lit).val

\* Var::to_dimacs without the step to the 1-based numbering
VarToDimacsZeroBased(var) == var

\* Var::to_dimacs, Lit::to_dimacs
VarToDimacs(var) == var + 1
LitToDimacs(lit) == VarToDimacs(LitVar(lit)) * (IF IsPositive(lit) THEN 1 ELSE -1)

\* Lit::evaluate(value): the literal's truth under a value of its variable
LitEvaluate(lit, value) == LitPolarity(lit) = value

(***************************************************************************)
(* The inputs of the model.                                                *)
(***************************************************************************)
Vars == 0 .. (NumVars - 1)
Lits == {LitFromVar(v, p) : v \in Vars, p \in BOOLEAN}

(***************************************************************************)
(* Maps (HashMap): functions with a finite domain.                         *)
(***************************************************************************)
EmptyMap == [x \in {} |-> TRUE]
MapInsert(m, k, v) == [x \in (DOMAIN m) \cup {k} |-> IF x = k THEN v ELSE m[x]]
MapRemove(m, k) == [x \in (DOMAIN m) \ {k} |-> m[x]]

(***************************************************************************)
(* formula.rs: Clause                                                      *)
(***************************************************************************)
\* Clause::new
ClauseNew == <<>>

\* Clause::add_literal: push, with no check of the literals already there
AddLiteral(clause, lit) == Append(clause, lit)

\* impl From<isize> for Lit: from_dimacs(number).expect(..)
LitFrom(number) == LitFromDimacs(number).val

RECURSIVE ClauseFromRec(_, _)
ClauseFromRec(clause, items) ==
    IF items = <<>>
    THEN clause
    ELSE ClauseFromRec(AddLiteral(clause, LitFrom(Head(items))), Tail(items))

\* impl From<Literals> for Clause: add_literal(item.into()) for each item
ClauseFrom(items) == ClauseFromRec(ClauseNew, items)

\* Clause::contains_literal
ContainsLiteral(clause, lit) == \E i \in 1 .. Len(clause) : clause[i] = lit

\* Clause::remove_literal: keeps the literals different from lit, in order
RemoveLiteral(clause, lit) == SelectSeq(clause, LAMBDA l : l # lit)

\* Clause::is_empty
ClauseIsEmpty(clause) == Len(clause) = 0

\* Clause::is_unit: the filter keeps the literals whose variable IS a key of
\* assignments
IsUnit(clause, assignments) ==
    LET unassigned == SelectSeq(clause, LAMBDA l : LitVar(l) \in DOMAIN assignments)
    IN IF Len(unassigned) = 1 THEN Some(unassigned[1]) ELSE None

\* The clause has no literal twice and no literal with its complement.
WellFormedClause(clause) ==
    \A i, j \in 1 .. Len(clause) : i # j => LitVar(clause[i]) # LitVar(clause[j])

(***************************************************************************)
(* formula.rs: Formula                                                     *)
(***************************************************************************)
\* Formula::new
FormulaNew == [clauses |-> <<>>, variables |-> {}]

\* Formula::add_clause
FormulaAddClause(f, clause) ==
    [clauses   |-> Append(f.clauses, clause),
     variables |-> f.variables \cup {LitVar(clause[i]) : i \in 1 .. Len(clause)}]

\* Formula::propogate_literal
PropogateLiteral(f, lit) ==
    LET kept == SelectSeq(f.clauses, LAMBDA c : ~ContainsLiteral(c, lit))
    IN [clauses   |-> [i \in 1 .. Len(kept) |-> RemoveLiteral(kept[i], Complement(lit))],
        variables |-> f.variables \ {LitVar(lit)}]

RECURSIVE Flatten(_)
Flatten(clauses) ==
    IF clauses = <<>> THEN <<>> ELSE Head(clauses) \o Flatten(Tail(clauses))

RECURSIVE PureRec(_, _, _)
PureRec(literals, i, pure) ==
    IF i > Len(literals)
    THEN pure
    ELSE LET lit == literals[i]
         IN IF ~ContainsLiteral(literals, Complement(lit)) /\ ~ContainsLiteral(pure, lit)
            THEN PureRec(literals, i + 1, Append(pure, lit))
            ELSE PureRec(literals, i + 1, pure)

\* Formula::pure_literals
PureLiterals(f) == PureRec(Flatten(f.clauses), 1, <<>>)

RECURSIVE FindUnitRec(_, _, _)
FindUnitRec(clauses, i, assignments) ==
    IF i > Len(clauses)
    THEN None
    ELSE LET u == IsUnit(clauses[i], assignments)
         IN IF IsSome(u) THEN u ELSE FindUnitRec(clauses, i + 1, assignments)

\* Formula::find_unit
FindUnit(f, assignments) == FindUnitRec(f.clauses, 1, assignments)

\* One iteration of the loop of Formula::attempt_solve (lines 242-258)
RefIteration(st) ==
    LET u  == FindUnit(st.f, st.a)
        s1 == IF IsSome(u)
              THEN [f |-> PropogateLiteral(st.f, u.val),
                    a |-> MapInsert(st.a, LitVar(u.val), LitPolarity(u.val)),
                    changed |-> TRUE]
              ELSE [f |-> st.f, a |-> st.a, changed |-> FALSE]
        pl == PureLiterals(s1.f)
    IN IF pl # <<>> /\ LitVar(pl[1]) \notin DOMAIN s1.a
       THEN [f |-> PropogateLiteral(s1.f, pl[1]),
             a |-> MapInsert(s1.a, LitVar(pl[1]), LitPolarity(pl[1])),
             changed |-> TRUE]
       ELSE s1

RECURSIVE RefLoop(_)
RefLoop(st) ==
    LET nx == RefIteration(st)
    IN IF nx.changed THEN RefLoop(nx) ELSE nx

\* Formula::attempt_solve: the set of results it can return, one for each
\* order in which the HashSet `variables` can hand out the branching variable.
\* Panic is the unwrap() of an empty iterator.
RECURSIVE RefAttemptSolve(_, _)
RefAttemptSolve(f0, a0) ==
    LET st == RefLoop([f |-> f0, a |-> a0, changed |-> FALSE])
        f  == st.f
        a  == st.a
    IN IF f.clauses = <<>>
       THEN {Some(a)}
       ELSE IF \E i \in 1 .. Len(f.clauses) : ClauseIsEmpty(f.clauses[i])
       THEN {None}
       ELSE IF f.variables = {}
       THEN {Panic}
       ELSE UNION {
              LET rt == RefAttemptSolve(PropogateLiteral(f, LitFromVar(v, TRUE)),
                                        MapInsert(a, v, TRUE))
              IN (rt \ {None})
                 \cup (IF None \in rt
                       THEN RefAttemptSolve(PropogateLiteral(f, LitFromVar(v, FALSE)),
                                            MapInsert(a, v, FALSE))
                       ELSE {})
              : v \in f.variables }

(***************************************************************************)
(* Assignment: a partial map from variables to booleans.                   *)
(***************************************************************************)
\* Assignment::default
AssignmentDefault == EmptyMap

\* Assignment::set (last writer wins)
AssignmentSet(assignment, var, value) == MapInsert(assignment, var, value)

\* Assignment::contains
AssignmentContains(assignment, var) == var \in DOMAIN assignment

\* Assignment::evaluate: Some(truth of the literal) when its variable is assigned
AssignmentEvaluate(assignment, lit) ==
    IF AssignmentContains(assignment, LitVar(lit))
    THEN Some(LitEvaluate(lit, assignment[LitVar(lit)]))
    ELSE None

\* Option<bool>::unwrap_or(false)
UnwrapOrFalse(o) == IF IsSome(o) THEN o.val ELSE FALSE

(***************************************************************************)
(* solver.rs: ClauseState and Context                                      *)
(***************************************************************************)
Watching(a, b) == [tag |-> "Watching", a |-> a, b |-> b]
Unit(lit) == [tag |-> "Unit", lit |-> lit]
Complete(sat) == [tag |-> "Complete", sat |-> sat]

\* Context::new keeping the polarity of the first occurrence of a variable
NotePolarityFirst(unassigned, lit) ==
    LET v == LitVar(lit)
    IN IF v \in DOMAIN unassigned
       THEN unassigned
       ELSE MapInsert(unassigned, v, IF LitPolarity(lit) THEN "TrueOnly" ELSE "FalseOnly")

\* Context::new, lines 42-59: the polarities seen of a literal's variable
NotePolarity(unassigned, lit) ==
    LET v == LitVar(lit)
    IN IF v \in DOMAIN unassigned
       THEN IF CASE unassigned[v] = "TrueOnly"  -> IsNegative(lit)
                 [] unassigned[v] = "FalseOnly" -> IsPositive(lit)
                 [] OTHER                       -> TRUE
            THEN MapInsert(unassigned, v, "Both")
            ELSE unassigned
       ELSE MapInsert(unassigned, v, IF LitPolarity(lit) THEN "TrueOnly" ELSE "FalseOnly")

RECURSIVE NotePolarities(_, _)
NotePolarities(unassigned, literals) ==
    IF literals = <<>>
    THEN unassigned
    ELSE NotePolarities(NotePolarity(unassigned, Head(literals)), Tail(literals))

\* Context::new, lines 62-66: a clause's first state
InitialState(clause) ==
    CASE Len(clause) = 0 -> Complete(FALSE)
      [] Len(clause) = 1 -> Unit(clause[1])
      [] OTHER           -> Watching(clause[1], clause[2])

\* Context::new
ContextNew(f) ==
    [assignment           |-> AssignmentDefault,
     unassigned_variables |-> NotePolarities(EmptyMap, Flatten(f.clauses)),
     clause_states        |-> [i \in 1 .. Len(f.clauses) |-> InitialState(f.clauses[i])]]

\* The scan of Context::assign without the test that keeps the still watched
\* literal from being chosen as the new one
RECURSIVE ScanClauseAnyUnassigned(_, _, _, _, _)
ScanClauseAnyUnassigned(clause, i, assignment, unassigned_lit, new_lit) ==
    IF i > Len(clause)
    THEN [complete |-> FALSE, new_lit |-> new_lit]
    ELSE LET lit  == clause[i]
             eval == AssignmentEvaluate(assignment, lit)
         IN IF IsSome(eval)
            THEN IF eval.val
                 THEN [complete |-> TRUE, new_lit |-> new_lit]
                 ELSE ScanClauseAnyUnassigned(clause, i + 1, assignment, unassigned_lit,
                                              new_lit)
            ELSE ScanClauseAnyUnassigned(clause, i + 1, assignment, unassigned_lit,
                                         Some(lit))

\* Context::assign, lines 114-124: the scan of a clause for a true literal or a
\* literal to watch.  new_lit ends as the last unassigned literal found before
\* the scan stops.
RECURSIVE ScanClause(_, _, _, _, _)
ScanClause(clause, i, assignment, unassigned_lit, new_lit) ==
    IF i > Len(clause)
    THEN [complete |-> FALSE, new_lit |-> new_lit]
    ELSE LET lit  == clause[i]
             eval == AssignmentEvaluate(assignment, lit)
         IN IF IsSome(eval)
            THEN IF eval.val
                 THEN [complete |-> TRUE, new_lit |-> new_lit]
                 ELSE ScanClause(clause, i + 1, assignment, unassigned_lit, new_lit)
            ELSE IF LitVar(lit) # LitVar(unassigned_lit)
                 THEN ScanClause(clause, i + 1, assignment, unassigned_lit, Some(lit))
                 ELSE ScanClause(clause, i + 1, assignment, unassigned_lit, new_lit)

\* The Watching arm of Context::assign without the search for a new literal
\* to watch: a clause whose watched literal became false keeps its state
AssignWatchingKeepsWatch(clause, state, assignment, var) ==
    IF LitVar(state.a) # var /\ LitVar(state.b) # var
    THEN state
    ELSE IF UnwrapOrFalse(AssignmentEvaluate(assignment, state.a))
            \/ UnwrapOrFalse(AssignmentEvaluate(assignment, state.b))
    THEN Complete(TRUE)
    ELSE state

\* The Watching arm of Context::assign without the scan of the clause: the
\* clause becomes Unit as soon as one watched literal is false
AssignWatchingNoScan(clause, state, assignment, var) ==
    IF LitVar(state.a) # var /\ LitVar(state.b) # var
    THEN state
    ELSE IF UnwrapOrFalse(AssignmentEvaluate(assignment, state.a))
            \/ UnwrapOrFalse(AssignmentEvaluate(assignment, state.b))
    THEN Complete(TRUE)
    ELSE Unit(IF LitVar(state.a) = var THEN state.b ELSE state.a)

\* Context::assign, lines 89-137: a clause in state Watching(a, b)
AssignWatching(clause, state, assignment, var) ==
    IF LitVar(state.a) # var /\ LitVar(state.b) # var
    THEN state
    ELSE IF UnwrapOrFalse(AssignmentEvaluate(assignment, state.a))
            \/ UnwrapOrFalse(AssignmentEvaluate(assignment, state.b))
    THEN Complete(TRUE)
    ELSE LET unassigned_lit == IF LitVar(state.a) = var THEN state.b ELSE state.a
             scan == ScanClause(clause, 1, assignment, unassigned_lit, None)
         IN IF scan.complete
            THEN Complete(TRUE)
            ELSE IF IsSome(scan.new_lit)
            THEN Watching(unassigned_lit, scan.new_lit.val)
            ELSE Unit(unassigned_lit)

\* The Unit arm of Context::assign without its conflict: the clause is
\* completed as true whatever the value
AssignUnitNoConflict(state, var, value) ==
    IF LitVar(state.lit) = var THEN Complete(TRUE) ELSE state

\* The Unit arm of Context::assign leaving the clause in state Unit when its
\* literal is made true
AssignUnitKept(state, var, value) ==
    IF LitVar(state.lit) = var /\ ~LitEvaluate(state.lit, value)
    THEN Complete(FALSE)
    ELSE state

\* The Unit arm of Context::assign without the test of the literal's variable
AssignUnitAnyVar(state, var, value) ==
    IF LitEvaluate(state.lit, value) THEN Complete(TRUE) ELSE Complete(FALSE)

\* Context::assign, lines 139-148: a clause in state Unit(lit)
AssignUnit(state, var, value) ==
    IF LitVar(state.lit) = var
    THEN IF LitEvaluate(state.lit, value) THEN Complete(TRUE) ELSE Complete(FALSE)
    ELSE state

\* Context::assign, lines 87-156: the clauses in order, stopping at the first
\* conflict (a Unit made false, or a clause that is Complete(false))
RECURSIVE AssignClauses(_, _, _, _, _, _)
AssignClauses(clauses, states, i, assignment, var, value) ==
    IF i > Len(clauses)
    THEN [clause_states |-> states, conflict |-> FALSE]
    ELSE LET state == states[i]
         IN CASE state.tag = "Watching" ->
                   AssignClauses(clauses,
                                 [states EXCEPT ![i] =
                                     AssignWatching(clauses[i], state, assignment, var)],
                                 i + 1, assignment, var, value)
              [] state.tag = "Unit" ->
                   LET new == AssignUnit(state, var, value)
                   IN IF new.tag = "Complete" /\ ~new.sat
                      THEN [clause_states |-> [states EXCEPT ![i] = new],
                            conflict |-> TRUE]
                      ELSE AssignClauses(clauses, [states EXCEPT ![i] = new],
                                         i + 1, assignment, var, value)
              [] OTHER ->
                   IF ~state.sat
                   THEN [clause_states |-> states, conflict |-> TRUE]
                   ELSE AssignClauses(clauses, states, i + 1, assignment, var, value)

\* Context::assign, lines 104-107 and 132-133: the debug assertions met while a
\* clause in state Watching(a, b) is handled hold
AssertsWatching(clause, state, assignment, var) ==
    IF LitVar(state.a) # var /\ LitVar(state.b) # var
    THEN TRUE
    ELSE IF UnwrapOrFalse(AssignmentEvaluate(assignment, state.a))
            \/ UnwrapOrFalse(AssignmentEvaluate(assignment, state.b))
    THEN TRUE
    ELSE LET unassigned_lit == IF LitVar(state.a) = var THEN state.b ELSE state.a
             scan == ScanClause(clause, 1, assignment, unassigned_lit, None)
         IN /\ LitVar(state.a) = var \/ LitVar(state.b) = var
            /\ (~scan.complete /\ IsSome(scan.new_lit)) =>
                  /\ ~AssignmentContains(assignment, LitVar(scan.new_lit.val))
                  /\ LitVar(scan.new_lit.val) # LitVar(unassigned_lit)

\* Context::assign: every debug assertion met in the call holds, over the
\* clauses that the loop handles before it returns
RECURSIVE AssignAsserts(_, _, _, _, _, _)
AssignAsserts(clauses, states, i, assignment, var, value) ==
    IF i > Len(clauses)
    THEN TRUE
    ELSE LET state == states[i]
         IN CASE state.tag = "Watching" ->
                   /\ AssertsWatching(clauses[i], state, assignment, var)
                   /\ AssignAsserts(clauses, states, i + 1, assignment, var, value)
              [] state.tag = "Unit" ->
                   LET new == AssignUnit(state, var, value)
                   IN IF new.tag = "Complete" /\ ~new.sat
                      THEN TRUE
                      ELSE AssignAsserts(clauses, states, i + 1, assignment, var, value)
              [] OTHER ->
                   IF ~state.sat
                   THEN TRUE
                   ELSE AssignAsserts(clauses, states, i + 1, assignment, var, value)

\* Context::assign without the removal of var from unassigned_variables
AssignNoRemove(f, ctx, var, value) ==
    LET assignment == AssignmentSet(ctx.assignment, var, value)
        done == AssignClauses(f.clauses, ctx.clause_states, 1, assignment, var, value)
    IN [ctx |-> [assignment           |-> assignment,
                 unassigned_variables |-> ctx.unassigned_variables,
                 clause_states        |-> done.clause_states],
        conflict |-> done.conflict]

\* Context::assign: the context after the call and the value returned
Assign(f, ctx, var, value) ==
    LET assignment == AssignmentSet(ctx.assignment, var, value)
        unassigned == MapRemove(ctx.unassigned_variables, var)
        done == AssignClauses(f.clauses, ctx.clause_states, 1, assignment, var, value)
    IN [ctx |-> [assignment           |-> assignment,
                 unassigned_variables |-> unassigned,
                 clause_states        |-> done.clause_states],
        conflict |-> done.conflict]

\* Context::assign_lit
AssignLit(f, ctx, lit) == Assign(f, ctx, LitVar(lit), LitPolarity(lit))

\* Context::get_unit_lit: the literal of the first clause in state Unit
GetUnitLit(ctx) ==
    LET units == SelectSeq(ctx.clause_states, LAMBDA s : s.tag = "Unit")
    IN IF units = <<>> THEN None ELSE Some(units[1].lit)

\* Context::get_pure_lit: the literals it can return, one for each order in
\* which the HashMap can hand out its entries (the empty set: it returns None)
GetPureLit(ctx) ==
    {IF ctx.unassigned_variables[v] = "TrueOnly" THEN VarPositive(v) ELSE VarNegative(v) :
        v \in {w \in DOMAIN ctx.unassigned_variables : ctx.unassigned_variables[w] # "Both"}}

\* Context::get_unassigned_var: the variables it can return (empty: None)
GetUnassignedVar(ctx) == DOMAIN ctx.unassigned_variables

\* attempt_solve, lines 235-245 and 266-276: the scan of the clause states
\* that sets all_true; it stops at the first state that is not Complete(true)
\* and panics (unreachable!) on a Complete(false) it meets before that
RECURSIVE ScanStates(_, _)
ScanStates(states, i) ==
    IF i > Len(states)
    THEN "all_true"
    ELSE IF states[i].tag = "Complete" /\ ~states[i].sat
    THEN "unreachable"
    ELSE IF ~(states[i].tag = "Complete" /\ states[i].sat)
    THEN "not_all"
    ELSE ScanStates(states, i + 1)

(***************************************************************************)
(* solver.rs: solve as a function of the formula.  get_pure_lit and        *)
(* get_unassigned_var take the first entry of a HashMap, an entry that     *)
(* changes from map to map and from run to run, so a call has a set of     *)
(* possible results: one for every way of taking the entries.              *)
(***************************************************************************)

\* attempt_solve trying the value false before the value true
BranchesFalseFirst == <<FALSE, TRUE>>

\* attempt_solve trying only the value true for the branching variable
BranchesTrueOnly == <<TRUE>>

\* attempt_solve, line 259: the values tried for the branching variable, in order
Branches == <<TRUE, FALSE>>

IsPanic(r) == "panic" \in DOMAIN r

NoConflict(ctx) == [ctx |-> ctx, conflict |-> FALSE]

\* attempt_solve, lines 210-250: the ways the loop can end from ctx, each a
\* return (ret, with the value returned) or a break (with the context left)
RECURSIVE LoopResults(_, _)
LoopResults(f, ctx) ==
    LET unit_lit == GetUnitLit(ctx)
        d1 == IF IsSome(unit_lit) THEN AssignLit(f, ctx, unit_lit.val) ELSE NoConflict(ctx)
        AfterPure(d2, changed) ==
            IF d2.conflict
            THEN {[ret |-> TRUE, val |-> None]}
            ELSE IF ~changed
            THEN {[ret |-> FALSE, ctx |-> d2.ctx]}
            ELSE CASE ScanStates(d2.ctx.clause_states, 1) = "unreachable" ->
                         {[ret |-> TRUE, val |-> Panic]}
                   [] ScanStates(d2.ctx.clause_states, 1) = "all_true" ->
                         {[ret |-> TRUE, val |-> Some(d2.ctx.assignment)]}
                   [] OTHER -> LoopResults(f, d2.ctx)
    IN IF d1.conflict
       THEN {[ret |-> TRUE, val |-> None]}
       ELSE IF GetPureLit(d1.ctx) = {}
       THEN AfterPure(NoConflict(d1.ctx), IsSome(unit_lit))
       ELSE UNION {AfterPure(AssignLit(f, d1.ctx, pure_lit), TRUE) :
                      pure_lit \in GetPureLit(d1.ctx)}

\* attempt_solve, and its loop over [true, false] from branch b on: the
\* values that can be returned
RECURSIVE AttemptSolveResults(_, _), BranchResults(_, _, _, _)
BranchResults(f, ctx, var, b) ==
    IF b > Len(Branches)
    THEN {None}
    ELSE LET d == Assign(f, ctx, var, Branches[b])
         IN IF d.conflict
            THEN BranchResults(f, ctx, var, b + 1)
            ELSE CASE ScanStates(d.ctx.clause_states, 1) = "unreachable" -> {Panic}
                   [] ScanStates(d.ctx.clause_states, 1) = "all_true" -> {Some(d.ctx.assignment)}
                   [] OTHER ->
                        LET rs == AttemptSolveResults(f, d.ctx)
                        IN {r \in rs : IsSome(r) \/ IsPanic(r)}
                              \cup (IF \E r \in rs : ~(IsSome(r) \/ IsPanic(r))
                                    THEN BranchResults(f, ctx, var, b + 1)
                                    ELSE {})

AttemptSolveResults(f, ctx) ==
    UNION {IF l.ret
           THEN {l.val}
           ELSE IF GetUnassignedVar(l.ctx) = {}
           THEN {Some(l.ctx.assignment)}
           ELSE UNION {BranchResults(f, l.ctx, branch_var, 1) :
                          branch_var \in GetUnassignedVar(l.ctx)} :
              l \in LoopResults(f, ctx)}

\* solve: the values it can return for f
SolveResults(f) ==
    IF f.clauses = <<>> THEN {None} ELSE AttemptSolveResults(f, ContextNew(f))

(***************************************************************************)
(* formula.rs: Formula::solve                                              *)
(***************************************************************************)
RECURSIVE InsertByKey(_, _)
InsertByKey(sorted, pair) ==
    IF sorted = <<>>
    THEN <<pair>>
    ELSE IF pair[1] < Head(sorted)[1]
    THEN <<pair>> \o sorted
    ELSE <<Head(sorted)>> \o InsertByKey(Tail(sorted), pair)

\* Formula::solve without its sort_by_key: the pairs in the order of the keys
SortByKeyOmitted(vec) == vec

RECURSIVE SortByKey(_)
\* Vec::sort_by_key(|(var, _)| var.index()): a stable sort by variable index
SortByKey(vec) ==
    IF vec = <<>>
    THEN <<>>
    ELSE InsertByKey(SortByKey(SubSeq(vec, 1, Len(vec) - 1)), vec[Len(vec)])

\* The orders in which a HashMap can hand out its keys.
KeyOrders(m) ==
    {o \in [1 .. Cardinality(DOMAIN m) -> DOMAIN m] :
        \A i, j \in DOMAIN o : i # j => o[i] # o[j]}

\* Formula::solve: the results it can return.  With the returned vector the
\* record keeps the map `solution` that the vector was made from.
FormulaSolve(f) ==
    UNION {
        IF IsSome(r)
        THEN {[some |-> TRUE,
               val |-> SortByKey([i \in DOMAIN o |-> <<o[i], r.val[o[i]]>>]),
               solution |-> r.val] : o \in KeyOrders(r.val)}
        ELSE {r}
        : r \in RefAttemptSolve(f, EmptyMap) }

(***************************************************************************)
(* The state machine: a formula is built clause by clause, solver::solve   *)
(* runs on it one step of attempt_solve at a time, and the reference       *)
(* Formula::solve is then run on the same formula.                         *)
(***************************************************************************)
NoResult == [some |-> FALSE, pending |-> TRUE]
NoAssign == [called |-> FALSE]
NoCall == [fn |-> "none"]

\* An activation record of attempt_solve: its context, where it stands, the
\* flag `changed`, the branching variable and the index of the branch in
\* [true, false] it is at.  at_loop is the unassigned set as it was when the
\* current iteration of the propagation loop began.
Frame(ctx) ==
    [ctx |-> ctx, pc |-> "unit", changed |-> FALSE, branch_var |-> -1, branch |-> 0,
     at_loop |-> DOMAIN ctx.unassigned_variables]

\* The DIMACS sequences of at most len numbers over the variables 0 .. nvars - 1.
DimacsSeqs(len, nvars) ==
    UNION {[1 .. n -> {d \in (-nvars) .. nvars : d # 0}] : n \in 0 .. len}

WideItems == DimacsSeqs(MaxLen, NumVars)
NarrowItems == DimacsSeqs(NarrowLen, NarrowVars)

\* Variables are numbered in the order of their first occurrence: with the
\* variables 0 .. k - 1 in use, the next new one is k.
RECURSIVE InOrder(_, _)
InOrder(items, k) ==
    IF items = <<>>
    THEN TRUE
    ELSE LET v == Abs(Head(items)) - 1
         IN v <= k /\ InOrder(Tail(items), IF v = k THEN k + 1 ELSE k)

LastItems == DimacsSeqs(MaxLen, NarrowVars)

IsNarrow(f) ==
    /\ \A i \in 1 .. Len(f.clauses) : Len(f.clauses[i]) <= NarrowLen
    /\ \A v \in f.variables : v < NarrowVars

WellFormed(f) == \A i \in 1 .. Len(f.clauses) : WellFormedClause(f.clauses[i])

IsProper(f) ==
    /\ IsNarrow(f)
    /\ WellFormed(f)
    /\ \A i \in 1 .. Len(f.clauses) : Len(f.clauses[i]) = NarrowLen

\* The clauses the model may add to formula f.
Items(f) ==
    LET n == Len(f.clauses)
        pool == IF n >= MaxClauses THEN {}
                ELSE IF n < MaxWide THEN WideItems
                ELSE IF n < MaxShort THEN (IF IsNarrow(f) THEN NarrowItems ELSE {})
                ELSE IF IsProper(f) THEN LastItems ELSE {}
    IN {items \in pool : InOrder(items, Cardinality(f.variables))}

Top == stack[Len(stack)]
Callers == SubSeq(stack, 1, Len(stack) - 1)
SetTop(fr) == [stack EXCEPT ![Len(stack)] = fr]

AssignRecord(var, value, pre, done) ==
    [called |-> TRUE, var |-> var, value |-> value, pre |-> pre,
     post |-> done.ctx, conflict |-> done.conflict]

\* attempt_solve returns Some(assignment): every caller returns it in turn
\* (line 282-284), so solve returns it.
ReturnSome(assignment) ==
    /\ stack' = <<>>
    /\ result' = Some(assignment)
    /\ phase' = "done"

\* attempt_solve returns None: its caller goes on with the next branch, and
\* solve returns None when there is no caller.
ReturnNone ==
    IF Len(stack) = 1
    THEN /\ stack' = <<>>
         /\ result' = None
         /\ phase' = "done"
    ELSE /\ stack' = [Callers EXCEPT ![Len(stack) - 1] =
                         [@ EXCEPT !.pc = "branch", !.branch = @ + 1]]
         /\ UNCHANGED <<result, phase>>

\* unreachable!() panics.
ReturnPanic ==
    /\ stack' = <<>>
    /\ result' = Panic
    /\ phase' = "done"

\* Formula::add_clause(Clause::from(items))
AddClause(items) ==
    /\ phase = "build"
    /\ items \in Items(formula)
    /\ formula' = FormulaAddClause(formula, ClauseFrom(items))
    /\ UNCHANGED <<phase, stack, result, ref, lastAssign, call>>

\* solve without its test for the empty formula: a context is always built
SolveAlwaysContext ==
    /\ phase = "build"
    /\ stack' = <<Frame(ContextNew(formula))>>
    /\ phase' = "solving"
    /\ result' = result
    /\ UNCHANGED <<formula, ref, lastAssign, call>>

\* solve, lines 200-206
Solve ==
    /\ phase = "build"
    /\ IF formula.clauses = <<>>
       THEN /\ result' = None
            /\ phase' = "done"
            /\ stack' = <<>>
       ELSE /\ stack' = <<Frame(ContextNew(formula))>>
            /\ phase' = "solving"
            /\ result' = result
    /\ UNCHANGED <<formula, ref, lastAssign, call>>

\* Unit propagation that does not set `changed`
UnitStepNoChanged ==
    /\ phase = "solving"
    /\ Top.pc = "unit"
    /\ LET unit_lit == GetUnitLit(Top.ctx)
       IN IF IsSome(unit_lit)
          THEN LET done == AssignLit(formula, Top.ctx, unit_lit.val)
               IN /\ lastAssign' = AssignRecord(LitVar(unit_lit.val),
                                                LitPolarity(unit_lit.val), Top.ctx, done)
                  /\ IF done.conflict
                     THEN ReturnNone
                     ELSE /\ stack' = SetTop([Top EXCEPT !.ctx = done.ctx, !.pc = "pure",
                                                         !.changed = FALSE])
                          /\ UNCHANGED <<result, phase>>
          ELSE /\ stack' = SetTop([Top EXCEPT !.pc = "pure", !.changed = FALSE])
               /\ lastAssign' = NoAssign
               /\ UNCHANGED <<result, phase>>
    /\ UNCHANGED <<formula, ref, call>>

\* attempt_solve, lines 211-220: unit propagation
UnitStep ==
    /\ phase = "solving"
    /\ Top.pc = "unit"
    /\ LET unit_lit == GetUnitLit(Top.ctx)
       IN IF IsSome(unit_lit)
          THEN LET done == AssignLit(formula, Top.ctx, unit_lit.val)
               IN /\ lastAssign' = AssignRecord(LitVar(unit_lit.val),
                                                LitPolarity(unit_lit.val), Top.ctx, done)
                  /\ IF done.conflict
                     THEN ReturnNone
                     ELSE /\ stack' = SetTop([Top EXCEPT !.ctx = done.ctx, !.pc = "pure",
                                                         !.changed = TRUE])
                          /\ UNCHANGED <<result, phase>>
          ELSE /\ stack' = SetTop([Top EXCEPT !.pc = "pure", !.changed = FALSE])
               /\ lastAssign' = NoAssign
               /\ UNCHANGED <<result, phase>>
    /\ UNCHANGED <<formula, ref, call>>

\* Pure literal elimination that does not set `changed`
PureStepNoChanged ==
    /\ phase = "solving"
    /\ Top.pc = "pure"
    /\ IF GetPureLit(Top.ctx) # {}
       THEN \E pure_lit \in GetPureLit(Top.ctx) :
               LET done == AssignLit(formula, Top.ctx, pure_lit)
               IN /\ lastAssign' = AssignRecord(LitVar(pure_lit), LitPolarity(pure_lit),
                                                Top.ctx, done)
                  /\ IF done.conflict
                     THEN ReturnNone
                     ELSE /\ stack' = SetTop([Top EXCEPT !.ctx = done.ctx, !.pc = "check"])
                          /\ UNCHANGED <<result, phase>>
       ELSE /\ stack' = SetTop([Top EXCEPT !.pc = "check"])
            /\ lastAssign' = NoAssign
            /\ UNCHANGED <<result, phase>>
    /\ UNCHANGED <<formula, ref, call>>

\* attempt_solve, lines 222-229: pure literal elimination
PureStep ==
    /\ phase = "solving"
    /\ Top.pc = "pure"
    /\ IF GetPureLit(Top.ctx) # {}
       THEN \E pure_lit \in GetPureLit(Top.ctx) :
               LET done == AssignLit(formula, Top.ctx, pure_lit)
               IN /\ lastAssign' = AssignRecord(LitVar(pure_lit), LitPolarity(pure_lit),
                                                Top.ctx, done)
                  /\ IF done.conflict
                     THEN ReturnNone
                     ELSE /\ stack' = SetTop([Top EXCEPT !.ctx = done.ctx, !.pc = "check",
                                                         !.changed = TRUE])
                          /\ UNCHANGED <<result, phase>>
       ELSE /\ stack' = SetTop([Top EXCEPT !.pc = "check"])
            /\ lastAssign' = NoAssign
            /\ UNCHANGED <<result, phase>>
    /\ UNCHANGED <<formula, ref, call>>

\* attempt_solve, lines 231-249: the end of an iteration of the loop
CheckStep ==
    /\ phase = "solving"
    /\ Top.pc = "check"
    /\ IF ~Top.changed
       THEN /\ stack' = SetTop([Top EXCEPT !.pc = "decide"])
            /\ UNCHANGED <<result, phase>>
       ELSE CASE ScanStates(Top.ctx.clause_states, 1) = "unreachable" -> ReturnPanic
              [] ScanStates(Top.ctx.clause_states, 1) = "all_true" ->
                    ReturnSome(Top.ctx.assignment)
              [] OTHER -> /\ stack' = SetTop([Top EXCEPT
                                        !.pc = "unit", !.changed = FALSE,
                                        !.at_loop = DOMAIN Top.ctx.unassigned_variables])
                          /\ UNCHANGED <<result, phase>>
    /\ lastAssign' = NoAssign
    /\ UNCHANGED <<formula, ref, call>>

\* attempt_solve, lines 252-257: the branching variable
Decide ==
    /\ phase = "solving"
    /\ Top.pc = "decide"
    /\ IF GetUnassignedVar(Top.ctx) = {}
       THEN ReturnSome(Top.ctx.assignment)
       ELSE \E var \in GetUnassignedVar(Top.ctx) :
               /\ stack' = SetTop([Top EXCEPT !.pc = "branch", !.branch_var = var,
                                              !.branch = 1])
               /\ UNCHANGED <<result, phase>>
    /\ lastAssign' = NoAssign
    /\ UNCHANGED <<formula, ref, call>>

\* The loop over [true, false] assigning in the invocation's own context
\* instead of a clone of it
BranchNoClone ==
    /\ phase = "solving"
    /\ Top.pc = "branch"
    /\ IF Top.branch > Len(Branches)
       THEN /\ ReturnNone
            /\ lastAssign' = NoAssign
       ELSE LET done == Assign(formula, Top.ctx, Top.branch_var, Branches[Top.branch])
            IN /\ lastAssign' = AssignRecord(Top.branch_var, Branches[Top.branch],
                                             Top.ctx, done)
               /\ IF done.conflict
                  THEN /\ stack' = SetTop([Top EXCEPT !.ctx = done.ctx, !.branch = @ + 1])
                       /\ UNCHANGED <<result, phase>>
                  ELSE CASE ScanStates(done.ctx.clause_states, 1) = "unreachable" ->
                               ReturnPanic
                         [] ScanStates(done.ctx.clause_states, 1) = "all_true" ->
                               ReturnSome(done.ctx.assignment)
                         [] OTHER ->
                               /\ stack' = Append(SetTop([Top EXCEPT !.ctx = done.ctx,
                                                                     !.pc = "call"]),
                                                  Frame(done.ctx))
                               /\ UNCHANGED <<result, phase>>
    /\ UNCHANGED <<formula, ref, call>>

\* attempt_solve, lines 259-287: one round of the loop over [true, false],
\* up to the recursive call, and the return of None after the last round
Branch ==
    /\ phase = "solving"
    /\ Top.pc = "branch"
    /\ IF Top.branch > Len(Branches)
       THEN /\ ReturnNone
            /\ lastAssign' = NoAssign
       ELSE LET done == Assign(formula, Top.ctx, Top.branch_var, Branches[Top.branch])
            IN /\ lastAssign' = AssignRecord(Top.branch_var, Branches[Top.branch],
                                             Top.ctx, done)
               /\ IF done.conflict
                  THEN /\ stack' = SetTop([Top EXCEPT !.branch = @ + 1])
                       /\ UNCHANGED <<result, phase>>
                  ELSE CASE ScanStates(done.ctx.clause_states, 1) = "unreachable" ->
                               ReturnPanic
                         [] ScanStates(done.ctx.clause_states, 1) = "all_true" ->
                               ReturnSome(done.ctx.assignment)
                         [] OTHER ->
                               /\ stack' = Append(SetTop([Top EXCEPT !.pc = "call"]),
                                                  Frame(done.ctx))
                               /\ UNCHANGED <<result, phase>>
    /\ UNCHANGED <<formula, ref, call>>

\* Formula::solve on the formula that solver::solve was run on
RefSolve ==
    /\ phase = "done"
    /\ \E r \in FormulaSolve(formula) : ref' = r
    /\ phase' = "compared"
    /\ lastAssign' = NoAssign
    /\ UNCHANGED <<formula, stack, result, call>>

(***************************************************************************)
(* Calls of the functions of literals.rs and of Clause::is_unit, each on   *)
(* arguments drawn from the bounded sets below.  The functions are pure,   *)
(* so a behaviour makes one call.                                          *)
(***************************************************************************)
\* Numbers around 0, around the DIMACS number of Var::max_var() and around its
\* negation.
CallNums ==
    {n + d : n \in {0, MAX_VAR + 1, -(MAX_VAR + 1)}, d \in (-SmallNum) .. SmallNum}

\* The literals that the constructors give on these numbers.
CallLits == {LitFromDimacs(n).val : n \in {m \in CallNums : LitFromDimacs(m).ok}}

\* The arguments of type usize among them.
CallSizes == {n \in CallNums : n >= 0}

\* The clauses and the assignment maps handed to Clause::is_unit: clauses of
\* up to CallLen literals over the first CallVars variables.
CallLen == 2
CallVars == 2
CallClauses == UNION {[1 .. n -> 0 .. (2 * CallVars - 1)] : n \in 0 .. CallLen}
CallMaps == UNION {[S -> BOOLEAN] : S \in SUBSET (0 .. (CallVars - 1))}

CallLitFromDimacs(number) ==
    /\ call = NoCall
    /\ call' = [fn |-> "Lit::from_dimacs", number |-> number, ret |-> LitFromDimacs(number)]
    /\ UNCHANGED <<formula, phase, stack, result, ref, lastAssign>>

CallVarFromDimacs(number) ==
    /\ call = NoCall
    /\ call' = [fn |-> "Var::from_dimacs", number |-> number, ret |-> VarFromDimacs(number)]
    /\ UNCHANGED <<formula, phase, stack, result, ref, lastAssign>>

CallLitFromIndex(index, polarity) ==
    /\ call = NoCall
    /\ call' = [fn |-> "Lit::from_index", index |-> index, polarity |-> polarity,
                ret |-> LitFromIndex(index, polarity)]
    /\ UNCHANGED <<formula, phase, stack, result, ref, lastAssign>>

CallVarFromIndex(index) ==
    /\ call = NoCall
    /\ call' = [fn |-> "Var::from_index", index |-> index, ret |-> VarFromIndex(index)]
    /\ UNCHANGED <<formula, phase, stack, result, ref, lastAssign>>

CallIsUnit(clause, assignments) ==
    /\ call = NoCall
    /\ call' = [fn |-> "Clause::is_unit", clause |-> clause, assignments |-> assignments,
                ret |-> IsUnit(clause, assignments)]
    /\ UNCHANGED <<formula, phase, stack, result, ref, lastAssign>>

\* Lit::from_dimacs(number) followed, when it succeeds, by to_dimacs()
CallDimacsRoundTrip(number) ==
    /\ call = NoCall
    /\ LET lit == LitFromDimacs(number)
       IN call' = [fn |-> "Lit::from_dimacs.to_dimacs", number |-> number,
                   ret |-> IF lit.ok THEN Ok(LitToDimacs(lit.val)) ELSE lit]
    /\ UNCHANGED <<formula, phase, stack, result, ref, lastAssign>>

\* lit.complement(), with the complement of the result and their fields
CallComplement(lit) ==
    /\ call = NoCall
    /\ LET c == LitNot(lit)
       IN call' = [fn |-> "Lit::complement", lit |-> lit, ret |-> c,
                   twice |-> IF c.ok THEN LitNot(c.val) ELSE c]
    /\ UNCHANGED <<formula, phase, stack, result, ref, lastAssign>>

Init ==
    /\ formula = FormulaNew
    /\ phase = "build"
    /\ stack = <<>>
    /\ result = NoResult
    /\ ref = NoResult
    /\ lastAssign = NoAssign
    /\ call = NoCall

Next ==
    \/ \E items \in WideItems : AddClause(items)
    \/ Solve
    \/ UnitStep
    \/ PureStep
    \/ CheckStep
    \/ Decide
    \/ Branch
    \/ RefSolve

Spec == Init /\ [][Next]_vars

NextCalls ==
    \/ \E number \in CallNums : CallLitFromDimacs(number)
    \/ \E number \in CallSizes : CallVarFromDimacs(number)
    \/ \E index \in CallSizes, polarity \in BOOLEAN : CallLitFromIndex(index, polarity)
    \/ \E index \in CallSizes : CallVarFromIndex(index)
    \/ \E clause \in CallClauses, assignments \in CallMaps : CallIsUnit(clause, assignments)
    \/ \E number \in CallNums : CallDimacsRoundTrip(number)
    \/ \E lit \in CallLits : CallComplement(lit)

SpecCalls == Init /\ [][NextCalls]_vars

(***************************************************************************)
(* The semantics of CNF that the claims are stated against.                *)
(***************************************************************************)
\* Literal lit is true under assignment a (false when its variable is unassigned).
LitTrue(a, lit) == LitVar(lit) \in DOMAIN a /\ a[LitVar(lit)] = LitPolarity(lit)

\* Clause c has a literal that is true under a.
ClauseTrue(a, c) == \E i \in 1 .. Len(c) : LitTrue(a, c[i])

\* Every clause of f has a literal that is true under a.
Satisfies(a, f) == \A i \in 1 .. Len(f.clauses) : ClauseTrue(a, f.clauses[i])

\* The variables that occur in the clauses of f.
VarsOf(f) == {LitVar(f.clauses[i][j]) : <<i, j>> \in
                {<<i, j>> \in (1 .. Len(f.clauses)) \X (1 .. MaxLen) : j <= Len(f.clauses[i])}}

\* Some total assignment of the variables of f satisfies f.
Satisfiable(f) == \E a \in [VarsOf(f) -> BOOLEAN] : Satisfies(a, f)

Returned == phase \in {"done", "compared"}

\* Every clause has at least one literal and no variable twice: the shape of
\* the clauses that Clause::random generates, in a formula that has a clause.
RandomShape(f) ==
    /\ f.clauses # <<>>
    /\ WellFormed(f)
    /\ \A i \in 1 .. Len(f.clauses) : f.clauses[i] # <<>>

HasEmptyClause(f) == \E i \in 1 .. Len(f.clauses) : f.clauses[i] = <<>>

IsNone(r) == ~IsSome(r) /\ DOMAIN r = {"some"}

(***************************************************************************)
(* C1.  Soundness: when solve returns Some(A) for a formula whose clauses  *)
(* are duplicate-free and non-tautological, every clause has a literal     *)
(* that is true under A.                                                   *)
(***************************************************************************)
C1_Soundness ==
    (Returned /\ IsSome(result) /\ WellFormed(formula)) => Satisfies(result.val, formula)

(***************************************************************************)
(* C2.  Completeness: for a non-empty formula with duplicate-free,         *)
(* non-tautological clauses that some total assignment satisfies, solve    *)
(* returns Some; it returns None only for an unsatisfiable formula.        *)
(***************************************************************************)
C2_Completeness ==
    (Returned /\ formula.clauses # <<>> /\ WellFormed(formula) /\ Satisfiable(formula))
        => IsSome(result)

\* A satisfiable formula of MaxClauses two-literal clauses with no pure
\* literal was solved with every variable false: the first decision was
\* taken, its true branch failed and its false branch gave the solution.
C2_Witness ==
    /\ Returned
    /\ IsProper(formula)
    /\ Len(formula.clauses) = MaxClauses
    /\ GetPureLit(ContextNew(formula)) = {}
    /\ Satisfiable(formula)
    /\ IsSome(result)
    /\ DOMAIN result.val = VarsOf(formula)
    /\ \A v \in DOMAIN result.val : ~result.val[v]

(***************************************************************************)
(* C3.  A formula that has an empty clause is reported unsatisfiable:      *)
(* solve returns None for it.                                              *)
(***************************************************************************)
C3_EmptyClauseUnsat == (Returned /\ HasEmptyClause(formula)) => IsNone(result)

(***************************************************************************)
(* C4.  Termination measure: an iteration of the propagation loop that     *)
(* goes on to the next iteration has removed a variable from the           *)
(* unassigned set; a recursive call of attempt_solve starts with fewer     *)
(* unassigned variables than its caller has; the number of nested          *)
(* recursive calls never exceeds the number of variables of the formula.   *)
(***************************************************************************)
C4_LoopShrinks ==
    (/\ phase = "solving" /\ phase' = "solving"
     /\ Top.pc = "check"
     /\ Len(stack') = Len(stack)
     /\ stack'[Len(stack')].pc = "unit")
        => /\ DOMAIN Top.ctx.unassigned_variables \subseteq Top.at_loop
           /\ DOMAIN Top.ctx.unassigned_variables # Top.at_loop

C4_CallShrinks ==
    \A i \in 1 .. Len(stack) - 1 :
        /\ DOMAIN stack[i + 1].ctx.unassigned_variables
              \subseteq DOMAIN stack[i].ctx.unassigned_variables
        /\ DOMAIN stack[i + 1].ctx.unassigned_variables
              # DOMAIN stack[i].ctx.unassigned_variables

C4_Depth == Len(stack) - 1 <= Cardinality(VarsOf(formula))

C4_Termination == [](C4_CallShrinks /\ C4_Depth) /\ [][C4_LoopShrinks]_vars

(***************************************************************************)
(* C5.  solve returns None for the formula with no clauses and builds no   *)
(* context for it: attempt_solve is never entered.                         *)
(***************************************************************************)
C5_EmptyFormula ==
    formula.clauses = <<>> =>
        /\ stack = <<>>
        /\ phase # "solving"
        /\ Returned => IsNone(result)

C5_Witness == Returned /\ formula.clauses = <<>> /\ IsNone(result)

(***************************************************************************)
(* C6.  The verdict is deterministic in the formula: whichever entries     *)
(* get_pure_lit and get_unassigned_var take, solve returns Some in every   *)
(* run on the formula or in none.                                          *)
(***************************************************************************)
C6_Deterministic ==
    Returned => \A r \in SolveResults(formula) : IsSome(r) = IsSome(result)

(***************************************************************************)
(* C7.  Differential equivalence: on a formula of one or more clauses,     *)
(* each of one or more literals over distinct variables, solver::solve     *)
(* and the reference Formula::solve agree on is_some(), and neither        *)
(* panics.                                                                 *)
(***************************************************************************)
C7_Differential ==
    (phase = "compared" /\ RandomShape(formula))
        => /\ IsSome(result) = IsSome(ref)
           /\ ~IsPanic(result)
           /\ ~IsPanic(ref)

\* Both solvers reported an unsatisfiable formula of two-literal clauses with
\* no pure literal: each had to refute both values of a decision.
C7_Witness ==
    /\ phase = "compared"
    /\ IsProper(formula)
    /\ Len(formula.clauses) = MaxClauses
    /\ GetPureLit(ContextNew(formula)) = {}
    /\ IsNone(result)
    /\ IsNone(ref)

(***************************************************************************)
(* C8.  Clause construction contract: the clauses built by Clause::from    *)
(* (Clause::new and add_literal) have no literal twice and no literal      *)
(* together with its complement.                                           *)
(***************************************************************************)
C8_ClauseContract == WellFormed(formula)

(***************************************************************************)
(* C9.  Clause::is_unit returns Some(l) exactly when l is the only literal *)
(* of the clause whose variable is absent from assignments, and None       *)
(* otherwise.                                                              *)
(***************************************************************************)
UnassignedLits(clause, assignments) ==
    SelectSeq(clause, LAMBDA l : LitVar(l) \notin DOMAIN assignments)

C9_IsUnit ==
    call.fn = "Clause::is_unit" =>
        call.ret = (IF Len(UnassignedLits(call.clause, call.assignments)) = 1
                    THEN Some(UnassignedLits(call.clause, call.assignments)[1])
                    ELSE None)

(***************************************************************************)
(* C10.  DIMACS construction errors: from_dimacs(n) is InvalidDimacs       *)
(* exactly when n = 0, IndexTooLarge exactly when |n| - 1 > MAX_VAR, and   *)
(* otherwise the variable of index |n| - 1 (for Lit, with polarity n > 0); *)
(* from_index(i) fails exactly when i > MAX_VAR.                           *)
(***************************************************************************)
IsErr(r, e) == ~r.ok /\ r.err = e

C10_DimacsErrors ==
    /\ call.fn \in {"Lit::from_dimacs", "Var::from_dimacs"} =>
          /\ IsErr(call.ret, "InvalidDimacs") <=> call.number = 0
          /\ IsErr(call.ret, "IndexTooLarge") <=> Abs(call.number) - 1 > MAX_VAR
          /\ call.ret.ok <=> (call.number # 0 /\ Abs(call.number) - 1 <= MAX_VAR)
    /\ (call.fn = "Lit::from_dimacs" /\ call.ret.ok) =>
          /\ LitIndex(call.ret.val) = Abs(call.number) - 1
          /\ LitPolarity(call.ret.val) = (call.number > 0)
    /\ (call.fn = "Var::from_dimacs" /\ call.ret.ok) => call.ret.val = call.number - 1
    /\ call.fn \in {"Lit::from_index", "Var::from_index"} =>
          /\ ~call.ret.ok <=> call.index > MAX_VAR
          /\ ~call.ret.ok => IsErr(call.ret, "IndexTooLarge")
    /\ (call.fn = "Lit::from_index" /\ call.ret.ok) =>
          /\ LitIndex(call.ret.val) = call.index
          /\ LitPolarity(call.ret.val) = call.polarity
    /\ (call.fn = "Var::from_index" /\ call.ret.ok) => call.ret.val = call.index

\* Lit::from_dimacs accepted the number of Var::max_var() and refused the next.
C10_Witness ==
    /\ call.fn = "Lit::from_dimacs"
    /\ call.number = -(MAX_VAR + 2)
    /\ IsErr(call.ret, "IndexTooLarge")

(***************************************************************************)
(* C11.  DIMACS round trip: for every nonzero n with |n| - 1 <= MAX_VAR,   *)
(* Lit::from_dimacs(n) succeeds and to_dimacs() of the literal is n.       *)
(***************************************************************************)
C11_DimacsRoundTrip ==
    (/\ call.fn = "Lit::from_dimacs.to_dimacs"
     /\ call.number # 0
     /\ Abs(call.number) - 1 <= MAX_VAR)
        => (call.ret.ok /\ call.ret.val = call.number)

\* The round trip was made on the negative literal of Var::max_var().
C11_Witness ==
    /\ call.fn = "Lit::from_dimacs.to_dimacs"
    /\ call.number = -(MAX_VAR + 1)
    /\ call.ret.ok
    /\ call.ret.val = -(MAX_VAR + 1)

(***************************************************************************)
(* C12.  Literal involution: the complement of a literal never fails, has  *)
(* the same variable and the opposite polarity, differs from the literal,  *)
(* and its own complement is the literal again.                            *)
(***************************************************************************)
C12_Involution ==
    call.fn = "Lit::complement" =>
        /\ call.ret.ok
        /\ call.twice.ok
        /\ call.twice.val = call.lit
        /\ LitVar(call.ret.val) = LitVar(call.lit)
        /\ LitPolarity(call.ret.val) = ~LitPolarity(call.lit)
        /\ call.ret.val # call.lit

\* The positive literal of Var::max_var() was complemented.
C12_Witness ==
    /\ call.fn = "Lit::complement"
    /\ call.lit = 2 * MAX_VAR + 1
    /\ call.ret.ok
    /\ call.ret.val = 2 * MAX_VAR

(***************************************************************************)
(* C13.  The packed code stays inside the 32-bit word: for every index     *)
(* i <= MAX_VAR and polarity p, Lit::from_index(i, p) succeeds with the    *)
(* code 2 * i + p, no bit of which is lost, so that index() and            *)
(* var().index() are i and polarity() is p.                                *)
(***************************************************************************)
C13_PackedEncoding ==
    (call.fn = "Lit::from_index" /\ call.index <= MAX_VAR) =>
        /\ call.ret.ok
        /\ call.ret.val = 2 * call.index + (IF call.polarity THEN 1 ELSE 0)
        /\ call.ret.val <= MaxCode
        /\ LitIndex(call.ret.val) = call.index
        /\ LitVar(call.ret.val) = call.index
        /\ LitPolarity(call.ret.val) = call.polarity

\* The positive literal of the largest index was built.
C13_Witness ==
    /\ call.fn = "Lit::from_index"
    /\ call.index = MAX_VAR
    /\ call.polarity
    /\ call.ret.ok
    /\ call.ret.val = 2 * MAX_VAR + 1

(***************************************************************************)
(* C14.  The vector of (Var, bool) pairs that Formula::solve returns is    *)
(* sorted by strictly ascending variable index, and every variable of the  *)
(* solution map appears in it exactly once, with its value.                *)
(***************************************************************************)
C14_SortedSolution ==
    (phase = "compared" /\ IsSome(ref)) =>
        /\ \A i, j \in 1 .. Len(ref.val) : i < j => ref.val[i][1] < ref.val[j][1]
        /\ Len(ref.val) = Cardinality(DOMAIN ref.solution)
        /\ \A v \in DOMAIN ref.solution :
              \E i \in 1 .. Len(ref.val) : ref.val[i] = <<v, ref.solution[v]>>

\* Formula::solve returned a solution that assigns every variable of the model.
C14_Witness ==
    /\ phase = "compared"
    /\ IsSome(ref)
    /\ Len(ref.val) = NumVars
    /\ \E i \in 1 .. Len(ref.val) : ~ref.val[i][2]

\* Literal lit is assigned and false under the assignment.
LitFalse(assignment, lit) ==
    /\ IsSome(AssignmentEvaluate(assignment, lit))
    /\ ~AssignmentEvaluate(assignment, lit).val

\* The contexts at rest: the context of every invocation of attempt_solve
\* that is running or waiting for a recursive call.
RestingContexts == {stack[k].ctx : k \in 1 .. Len(stack)}

(***************************************************************************)
(* C15.  Watched-literal invariant: on a formula with duplicate-free,      *)
(* non-tautological clauses, in every context at rest a clause in state    *)
(* Watching(a, b) has a and b among its literals, on different variables,  *)
(* and neither a nor b is false under the context's assignment.            *)
(***************************************************************************)
C15_WatchedInvariant ==
    WellFormed(formula) =>
        \A ctx \in RestingContexts : \A i \in 1 .. Len(formula.clauses) :
            LET s == ctx.clause_states[i]
            IN s.tag = "Watching" =>
                  /\ LitVar(s.a) # LitVar(s.b)
                  /\ ContainsLiteral(formula.clauses[i], s.a)
                  /\ ContainsLiteral(formula.clauses[i], s.b)
                  /\ ~LitFalse(ctx.assignment, s.a)
                  /\ ~LitFalse(ctx.assignment, s.b)

\* An assign made a watched literal false and the clause took another
\* literal to watch: it is Watching still, with a different pair.
C15_Witness ==
    /\ WellFormed(formula)
    /\ phase = "solving"
    /\ lastAssign.called
    /\ ~lastAssign.conflict
    /\ Top.ctx = lastAssign.post
    /\ \E i \in 1 .. Len(formula.clauses) :
          /\ lastAssign.pre.clause_states[i].tag = "Watching"
          /\ Top.ctx.clause_states[i].tag = "Watching"
          /\ Top.ctx.clause_states[i] # lastAssign.pre.clause_states[i]
          /\ \E j \in 1 .. Len(formula.clauses[i]) :
                LitFalse(Top.ctx.assignment, formula.clauses[i][j])

(***************************************************************************)
(* C16.  Unit-state invariant: on a formula with duplicate-free,           *)
(* non-tautological clauses, in every context at rest a clause in state    *)
(* Unit(l) has l among its literals, the variable of l is unassigned, and  *)
(* every other literal of the clause is assigned and false.                *)
(***************************************************************************)
C16_UnitInvariant ==
    WellFormed(formula) =>
        \A ctx \in RestingContexts : \A i \in 1 .. Len(formula.clauses) :
            LET s == ctx.clause_states[i]
            IN s.tag = "Unit" =>
                  /\ ContainsLiteral(formula.clauses[i], s.lit)
                  /\ ~AssignmentContains(ctx.assignment, LitVar(s.lit))
                  /\ \A j \in 1 .. Len(formula.clauses[i]) :
                        formula.clauses[i][j] # s.lit
                            => LitFalse(ctx.assignment, formula.clauses[i][j])

\* An assign turned a clause of MaxLen literals from Watching into Unit.
C16_Witness ==
    /\ WellFormed(formula)
    /\ phase = "solving"
    /\ lastAssign.called
    /\ Top.ctx = lastAssign.post
    /\ \E i \in 1 .. Len(formula.clauses) :
          /\ Len(formula.clauses[i]) = MaxLen
          /\ lastAssign.pre.clause_states[i].tag = "Watching"
          /\ Top.ctx.clause_states[i].tag = "Unit"

HasUnit(ctx) == \E i \in 1 .. Len(ctx.clause_states) : ctx.clause_states[i].tag = "Unit"

(***************************************************************************)
(* C17.  Propagation reaches its fixpoint before any decision: when        *)
(* attempt_solve is at the choice of a branching variable, and for as long *)
(* as it works through the branches on that context, no clause of the      *)
(* context is in state Unit.                                               *)
(***************************************************************************)
C17_FixpointBeforeDecision ==
    \A k \in 1 .. Len(stack) :
        stack[k].pc \in {"decide", "branch", "call"} => ~HasUnit(stack[k].ctx)

\* The first invocation is at its first branch after propagation: a clause of
\* two or more literals is complete with one literal true and all others
\* false, which it became through the state Unit.
C17_Witness ==
    /\ phase = "solving"
    /\ Len(stack) = 1
    /\ Top.pc = "branch"
    /\ Top.branch = 1
    /\ \E i \in 1 .. Len(formula.clauses) :
          /\ Len(formula.clauses[i]) >= 2
          /\ Top.ctx.clause_states[i].tag = "Complete"
          /\ \E j \in 1 .. Len(formula.clauses[i]) :
                /\ LitTrue(Top.ctx.assignment, formula.clauses[i][j])
                /\ \A h \in 1 .. Len(formula.clauses[i]) :
                      h # j => LitFalse(Top.ctx.assignment, formula.clauses[i][h])

(***************************************************************************)
(* C18.  No internal assertion fires on well-formed input: on a formula    *)
(* with duplicate-free, non-tautological clauses every debug assertion met *)
(* in a call of assign holds, no clause is Complete(false) after an assign *)
(* that reported no conflict, and unreachable!() is never reached.         *)
(***************************************************************************)
C18_NoAssertionFires ==
    WellFormed(formula) =>
        /\ ~IsPanic(result)
        /\ lastAssign.called =>
              /\ AssignAsserts(formula.clauses, lastAssign.pre.clause_states, 1,
                               lastAssign.post.assignment, lastAssign.var, lastAssign.value)
              /\ ~lastAssign.conflict =>
                    \A i \in 1 .. Len(formula.clauses) :
                        ~(/\ lastAssign.post.clause_states[i].tag = "Complete"
                          /\ ~lastAssign.post.clause_states[i].sat)

\* In a recursive call an assign without conflict gave a clause a new literal
\* to watch (the assertions on the new watch were met) and left clauses open
\* (the scan after it went past unreachable!()).
C18_Witness ==
    /\ WellFormed(formula)
    /\ phase = "solving"
    /\ Len(stack) >= 2
    /\ lastAssign.called
    /\ ~lastAssign.conflict
    /\ ScanStates(lastAssign.post.clause_states, 1) = "not_all"
    /\ \E i \in 1 .. Len(formula.clauses) :
          /\ lastAssign.pre.clause_states[i].tag = "Watching"
          /\ lastAssign.post.clause_states[i].tag = "Watching"
          /\ lastAssign.post.clause_states[i] # lastAssign.pre.clause_states[i]

(***************************************************************************)
(* C19.  Every literal that get_pure_lit can return is pure at that point  *)
(* of the search: its variable is unassigned and its complement occurs in  *)
(* no clause whose state is not Complete.                                  *)
(***************************************************************************)
C19_PureIsPure ==
    (phase = "solving" /\ Top.pc = "pure") =>
        \A l \in GetPureLit(Top.ctx) :
            /\ ~AssignmentContains(Top.ctx.assignment, LitVar(l))
            /\ \A i \in 1 .. Len(formula.clauses) :
                  Top.ctx.clause_states[i].tag # "Complete"
                      => ~ContainsLiteral(formula.clauses[i], Complement(l))

\* get_pure_lit has a literal to return after some variable was assigned, and
\* the literal occurs in a clause that is not complete.
C19_Witness ==
    /\ phase = "solving"
    /\ Top.pc = "pure"
    /\ DOMAIN Top.ctx.assignment # {}
    /\ \E l \in GetPureLit(Top.ctx) : \E i \in 1 .. Len(formula.clauses) :
          /\ Top.ctx.clause_states[i].tag # "Complete"
          /\ ContainsLiteral(formula.clauses[i], l)

(***************************************************************************)
(* C20.  Chronological branch order: after the choice of the branching     *)
(* variable the first value assigned to it is true; false is assigned only *)
(* in the second round, which an invocation enters only when the assign of *)
(* true conflicted or the recursive call on the true branch returned None; *)
(* when a branch yields an assignment, solve returns it and every waiting  *)
(* invocation is dropped with its remaining branches.                      *)
(***************************************************************************)
C20_Step ==
    /\ (phase = "solving" /\ Top.pc = "decide" /\ phase' = "solving")
          => stack'[Len(stack')].branch = 1
    /\ (phase = "solving" /\ Top.pc = "branch" /\ lastAssign'.called) =>
          /\ lastAssign'.var = Top.branch_var
          /\ lastAssign'.value = (Top.branch = 1)
          /\ ~lastAssign'.value => Top.branch = 2
    /\ \A k \in 1 .. Len(stack) :
          (/\ k <= Len(stack')
           /\ stack[k].pc \in {"branch", "call"}
           /\ stack'[k].branch # stack[k].branch)
             => /\ stack'[k].branch = stack[k].branch + 1
                /\ \/ /\ k = Len(stack)
                      /\ Len(stack') = Len(stack)
                      /\ lastAssign'.called
                      /\ lastAssign'.conflict
                      /\ lastAssign'.var = stack[k].branch_var
                   \/ /\ k = Len(stack) - 1
                      /\ Len(stack') = k
                      /\ stack[k].pc = "call"
    /\ (phase = "solving" /\ phase' = "done" /\ IsSome(result')) => stack' = <<>>
    /\ phase \in {"done", "compared"} => (stack' = <<>> /\ ~lastAssign'.called)

C20_BranchOrder == [][C20_Step]_vars

\* The true branch of a decision failed and its false branch was entered: the
\* caller waits in its second round for the recursive call.
C20_Witness ==
    /\ phase = "solving"
    /\ Len(stack) >= 2
    /\ stack[Len(stack) - 1].pc = "call"
    /\ stack[Len(stack) - 1].branch = 2
    /\ lastAssign.called
    /\ lastAssign.var = stack[Len(stack) - 1].branch_var
    /\ ~lastAssign.value

(***************************************************************************)
(* C21.  Branch isolation by cloning: from the choice of the branching     *)
(* variable on, the context of an invocation stays what it was at the      *)
(* decision, whatever its branches and their recursive calls assign; each  *)
(* branch, the false one included, starts its assign from exactly that     *)
(* context; and the formula is the same throughout.                        *)
(***************************************************************************)
C21_Step ==
    /\ \A k \in 1 .. Len(stack) :
          (k <= Len(stack') /\ stack[k].pc \in {"branch", "call"})
             => /\ stack'[k].ctx = stack[k].ctx
                /\ stack'[k].branch_var = stack[k].branch_var
    /\ (phase = "solving" /\ Top.pc = "decide" /\ phase' = "solving")
          => stack'[Len(stack')].ctx = Top.ctx
    /\ (phase = "solving" /\ Top.pc = "branch" /\ lastAssign'.called)
          => lastAssign'.pre = Top.ctx
    /\ phase = "solving" => formula' = formula

C21_BranchIsolation == [][C21_Step]_vars

\* A false branch was entered: its assign started from the context of the
\* waiting invocation, in which the branching variable is unassigned, and the
\* recursive call runs on the context that the assign gave.
C21_Witness ==
    /\ phase = "solving"
    /\ Len(stack) >= 2
    /\ stack[Len(stack) - 1].branch = 2
    /\ lastAssign.called
    /\ ~lastAssign.value
    /\ lastAssign.pre = stack[Len(stack) - 1].ctx
    /\ Top.ctx = lastAssign.post
    /\ ~AssignmentContains(stack[Len(stack) - 1].ctx.assignment, lastAssign.var)

(***************************************************************************)
(* C22.  Frame of assign: a call assign(var, value) leaves unchanged the   *)
(* state of every clause that is Watching(a, b) with neither watched       *)
(* variable equal to var, Unit(l) with the variable of l different from    *)
(* var, or Complete(true), even when the clause has a literal of var.      *)
(***************************************************************************)
C22_AssignFrame ==
    lastAssign.called =>
        \A i \in 1 .. Len(formula.clauses) :
            LET s == lastAssign.pre.clause_states[i]
            IN (\/ /\ s.tag = "Watching"
                   /\ LitVar(s.a) # lastAssign.var
                   /\ LitVar(s.b) # lastAssign.var
                \/ /\ s.tag = "Unit"
                   /\ LitVar(s.lit) # lastAssign.var
                \/ /\ s.tag = "Complete"
                   /\ s.sat)
                  => lastAssign.post.clause_states[i] = s

\* An assign made true a literal that is not watched in a clause whose two
\* watched literals are on other variables: the clause kept its state
\* Watching, although it is satisfied now.
C22_Witness ==
    /\ lastAssign.called
    /\ \E i \in 1 .. Len(formula.clauses) :
          /\ lastAssign.pre.clause_states[i].tag = "Watching"
          /\ LitVar(lastAssign.pre.clause_states[i].a) # lastAssign.var
          /\ LitVar(lastAssign.pre.clause_states[i].b) # lastAssign.var
          /\ \E j \in 1 .. Len(formula.clauses[i]) :
                /\ LitVar(formula.clauses[i][j]) = lastAssign.var
                /\ LitTrue(lastAssign.post.assignment, formula.clauses[i][j])
          /\ lastAssign.post.clause_states[i] = lastAssign.pre.clause_states[i]

(***************************************************************************)
(* C23.  Idempotence of propagation: once the propagation loop has         *)
(* stopped without conflict, the loop run again on the same context can    *)
(* only stop again without a return and leave the assignment, the          *)
(* unassigned set and every clause state as they are.                      *)
(***************************************************************************)
C23_PropagationIdempotent ==
    \A k \in 1 .. Len(stack) :
        stack[k].pc \in {"decide", "branch", "call"} =>
            LoopResults(formula, stack[k].ctx) = {[ret |-> FALSE, ctx |-> stack[k].ctx]}

\* The loop of a recursive call stopped after it had assigned a variable.
C23_Witness ==
    /\ phase = "solving"
    /\ Len(stack) >= 2
    /\ Top.pc = "decide"
    /\ Cardinality(DOMAIN Top.ctx.assignment)
          >= Cardinality(DOMAIN stack[Len(stack) - 1].ctx.assignment) + 2
    /\ DOMAIN Top.ctx.unassigned_variables # {}

\* Every context the run has made: the contexts at rest and the context
\* that the last call of assign left.
ReachedContexts ==
    RestingContexts \cup (IF lastAssign.called THEN {lastAssign.post} ELSE {})

(***************************************************************************)
(* C24.  Complete(true) is truthful and absorbing: in every reachable      *)
(* context a clause in state Complete(true) has a literal that is true     *)
(* under the context's assignment, and an assign in that context leaves    *)
(* the state of such a clause as it is.                                    *)
(***************************************************************************)
C24_CompleteTrue ==
    /\ \A ctx \in ReachedContexts : \A i \in 1 .. Len(formula.clauses) :
          (ctx.clause_states[i].tag = "Complete" /\ ctx.clause_states[i].sat)
             => ClauseTrue(ctx.assignment, formula.clauses[i])
    /\ lastAssign.called =>
          \A i \in 1 .. Len(formula.clauses) :
              (/\ lastAssign.pre.clause_states[i].tag = "Complete"
               /\ lastAssign.pre.clause_states[i].sat)
                 => lastAssign.post.clause_states[i] = lastAssign.pre.clause_states[i]

(***************************************************************************)
(* C25.  No variable is assigned twice on a search path: on a formula with *)
(* duplicate-free, non-tautological clauses every call of assign made by   *)
(* attempt_solve targets a variable that is in the unassigned set and      *)
(* absent from the assignment, so no recorded value is overwritten.        *)
(***************************************************************************)
C25_NoDoubleAssignment ==
    (WellFormed(formula) /\ lastAssign.called) =>
        /\ lastAssign.var \in DOMAIN lastAssign.pre.unassigned_variables
        /\ ~AssignmentContains(lastAssign.pre.assignment, lastAssign.var)
        /\ \A v \in DOMAIN lastAssign.pre.assignment :
              lastAssign.post.assignment[v] = lastAssign.pre.assignment[v]

\* In a recursive call, with variables assigned already, a unit literal
\* was assigned.
C25_Witness ==
    /\ WellFormed(formula)
    /\ phase = "solving"
    /\ Len(stack) >= 2
    /\ lastAssign.called
    /\ DOMAIN lastAssign.pre.assignment # {}
    /\ GetUnitLit(lastAssign.pre) = Some(LitFromVar(lastAssign.var, lastAssign.value))
    /\ lastAssign.pre = stack[Len(stack)].ctx \/ lastAssign.post = stack[Len(stack)].ctx

(***************************************************************************)
(* C26.  Variable bookkeeping: in every reachable context the keys of      *)
(* unassigned_variables and the domain of the assignment are disjoint and  *)
(* together are exactly the variables that occur in the formula's clauses; *)
(* an assignment that solve returns assigns only variables of the formula. *)
(***************************************************************************)
C26_VariableBookkeeping ==
    /\ \A ctx \in ReachedContexts :
          /\ DOMAIN ctx.unassigned_variables \cap DOMAIN ctx.assignment = {}
          /\ DOMAIN ctx.unassigned_variables \cup DOMAIN ctx.assignment = VarsOf(formula)
    /\ (Returned /\ IsSome(result)) => DOMAIN result.val \subseteq VarsOf(formula)

\* A context of a recursive call on a formula of NumVars variables, with
\* variables on both sides.
C26_Witness ==
    /\ phase = "solving"
    /\ Len(stack) >= 2
    /\ Cardinality(VarsOf(formula)) = NumVars
    /\ DOMAIN Top.ctx.unassigned_variables # {}
    /\ Cardinality(DOMAIN Top.ctx.assignment) >= 2

====
